---- MODULE Spec2Model ----
(***************************************************************************)
(* MPDiagnosticAgent log download subsystem:                               *)
(*   core/mavlink_interface.py  MAVLinkInterface (connect, disconnect)     *)
(*   core/log_downloader.py     LogDownloader (list_logs, download_log,    *)
(*                              download_latest, download_all,             *)
(*                              erase_all_logs)                            *)
(* The caller, the device and the link are the environment.  A blocking    *)
(* method is a sequence of steps (pc); nested calls use the frame stack.   *)
(***************************************************************************)
EXTENDS Integers, Sequences, FiniteSets, TLC

\* ---------------------------------------------------------------- constants
\* LogDownloader.LOG_DATA_CHUNK_SIZE
LOG_DATA_CHUNK_SIZE == 90
\* max_retries, local of download_log
max_retries == 3

\* ------------------------------------------------------------------- bounds
\* LOG_ENTRY messages one catalog collection may receive
MaxEntries == 2
\* recv_match calls within one catalog collection window
MaxListRecv == 3
\* recv_match calls within one 15 s chunk window
MaxWait == 2

\* ------------------------------------------------------------- environment
\* The logs stored on the device: (id, time_utc, size).  The device sends the
\* LOG_ENTRY of a log at most once per collection, in any order.
DeviceLogs ==
    { [id |-> 3, time_utc |-> 100, size |-> 200],
      [id |-> 1, time_utc |-> 500, size |-> 90],
      [id |-> 2, time_utc |-> 200, size |-> 20] }

LogIds == {e.id : e \in DeviceLogs}

\* num_logs values a LOG_ENTRY may announce
NumLogsVals == 0 .. 3

\* count values a LOG_DATA may carry (count is the number of valid bytes of
\* the 90-byte data field)
RespCounts == {0, 20, LOG_DATA_CHUNK_SIZE}

\* two different payload contents for the same (id, ofs)
Seeds == {0, 1}

\* (system, component) a heartbeat may come from
Targets == { <<1, 1>>, <<7, 1>> }

\* link parameters a caller may construct the interface with
LinkParamsSet ==
    { [port |-> "/dev/ttyACM0", baud |-> 921600, timeout |-> 30],
      [port |-> "udp:127.0.0.1:14550", baud |-> 57600, timeout |-> 10] }

\* msg.data of a LOG_DATA message: always LOG_DATA_CHUNK_SIZE bytes
Payload(seed, id, ofs) ==
    [i \in 1 .. LOG_DATA_CHUNK_SIZE |-> (seed * 101 + id * 31 + ofs + i) % 256]

\* the LOG_ENTRY a device that holds no logs answers LOG_REQUEST_LIST with:
\* id 0, num_logs 0, time_utc 0, size 0
NoLogsEntry == [id |-> 0, time_utc |-> 0, size |-> 0]

NoMsg == [type |-> "None", id |-> 0, ofs |-> 0, count |-> 0, seed |-> 0]

LogData(id, ofs, cnt, seed) ==
    [type |-> "LOG_DATA", id |-> id, ofs |-> ofs, count |-> cnt, seed |-> seed]

\* the LOG_ENTRY message of entry e, as list_logs holds it in its local msg
LogEntryMsg(e) == [type |-> "LOG_ENTRY", id |-> e.id, ofs |-> 0, count |-> 0, seed |-> 0]

\* a message of a kind this subsystem does not use (stray telemetry)
Stray == [type |-> "ATTITUDE", id |-> 0, ofs |-> 0, count |-> 0, seed |-> 0]

\* ------------------------------------------------------------------- state
VARIABLES
    mav,               \* self.mav: the MAVLinkInterface the downloader uses
    own_connection,    \* self.own_connection
    cached_logs,       \* self._cached_logs
    linkDead,          \* the link of the current master has failed
    stack,             \* frames of the calls in progress, outermost first
    pc,                \* position in the innermost frame
    force_refresh,     \* list_logs: parameter
    logs,              \* list_logs: local logs
    last_num_logs,     \* list_logs: local last_num_logs (-1 is None)
    ll_iter,           \* list_logs: recv_match calls made in this collection
    log_id,            \* download_log: parameter
    total_size,        \* download_log: local
    offset,            \* download_log: local
    retry_count,       \* download_log: local
    count,             \* download_log: local (requested length)
    msg,               \* download_log, list_logs: local msg (last result of
                       \* recv_match; NoMsg once the frame has returned)
    wait_iter,         \* download_log: recv_match calls made in this window
    file,              \* output_file of the download_log call
    all_logs,          \* download_all: local logs
    all_i,             \* download_all: loop index
    downloaded,        \* download_all: local downloaded
    retLogs,           \* value returned by the last list_logs
    retPath,           \* value returned by the last download_log
    retAll,            \* value returned by download_all
    retBool,           \* value returned by connect / erase_all_logs
    raised,            \* the top-level call ended by an exception
    call,              \* the top-level call in progress or just ended
    tx,                \* messages sent during the top-level call, per kind
    rxAny,             \* a recv_match call was made during the top-level call
    beaconWaits,       \* wait_heartbeat calls during the top-level call
    reconnects,        \* disconnect/new-interface cycles during the call
    prevList,          \* the list_logs(False) call that ended right before
    accepted,          \* chunks accepted by the download_log call
    answered,          \* the request last sent was answered by an accepted chunk
    streak,            \* consecutive timed-out windows of the chunk last requested
    dlStatus,          \* how the download_log call stands
    dlCause,           \* why it failed
    cancelRequested,   \* the caller's cancellation signal
    attempts           \* download_all: outcome of each download_log call

objVars == <<mav, own_connection, cached_logs, linkDead>>
llVars == <<force_refresh, logs, last_num_logs, ll_iter>>
dlVars == <<log_id, total_size, offset, retry_count, count, msg, wait_iter, file>>
allVars == <<all_logs, all_i, downloaded>>
retVars == <<retLogs, retPath, retAll, retBool, raised>>
wireVars == <<tx, rxAny, beaconWaits, reconnects>>
dlGhost == <<accepted, streak, answered, dlStatus, dlCause, cancelRequested>>
vars == <<objVars, stack, pc, llVars, dlVars, allVars, retVars, call, wireVars,
          prevList, dlGhost, attempts>>

\* ----------------------------------------------------------------- helpers
NoMaster == [state |-> "None", port |-> "", baud |-> 0]

\* MAVLinkInterface.__init__, called by the downloader (log_downloader.py
\* lines 77 and 142); creator records who made the object
NewInterface(port, baudrate, timeout) ==
    [connection_string |-> port, baudrate |-> baudrate, timeout |-> timeout,
     master |-> NoMaster, connected |-> FALSE,
     target_system |-> 1, target_component |-> 1, creator |-> "downloader"]

\* the interface the caller made and hands to LogDownloader.__init__
CallerInterface(port, baudrate, timeout) ==
    [NewInterface(port, baudrate, timeout) EXCEPT !.creator = "caller"]

\* MAVLinkInterface.is_connected
is_connected(m) == m.connected /\ m.master.state # "None"

\* mavutil.mavlink_connection(self.connection_string, baud=self.baudrate, ...)
OpenMaster(m) ==
    [state |-> "open", port |-> m.connection_string, baud |-> m.baudrate]

\* MAVLinkInterface.connect: the interface after the call, for each outcome
\* "open_fails" (mavlink_connection raises), "no_beacon" (wait_heartbeat
\* returns None), "beacon" (a heartbeat from tgt arrives)
ConnectResult(m, outcome, tgt) ==
    CASE outcome = "open_fails" -> [m EXCEPT !.connected = FALSE]
      [] outcome = "no_beacon" -> [m EXCEPT !.master = OpenMaster(m)]
      [] OTHER -> [m EXCEPT !.master = OpenMaster(m), !.connected = TRUE,
                            !.target_system = tgt[1], !.target_component = tgt[2]]

ConnectOutcomes == {"open_fails", "no_beacon", "beacon"}

\* MAVLinkInterface.disconnect
DisconnectResult(m) ==
    IF m.master.state # "None"
    THEN [m EXCEPT !.master.state = "closed", !.connected = FALSE]
    ELSE m

NoneLogs == [none |-> TRUE, list |-> <<>>]
SomeLogs(l) == [none |-> FALSE, list |-> l]

\* data: whether any LOG_REQUEST_DATA was sent
ZeroTx == [list |-> 0, data |-> FALSE, end |-> 0, erase |-> 0]

\* a send on a failed link may raise
SendRaisesOn(dead) == IF dead THEN {TRUE, FALSE} ELSE {FALSE}

SendRaises == SendRaisesOn(linkDead)

\* logs.sort(key=lambda x: x.id): stable insertion of e into sorted s
InsertById(s, e) ==
    LET k == Cardinality({i \in 1 .. Len(s) : s[i].id <= e.id})
    IN SubSeq(s, 1, k) \o <<e>> \o SubSeq(s, k + 1, Len(s))

\* SortById that leaves the order of arrival
Unsorted(s) == s

RECURSIVE SortById(_)
SortById(s) ==
    IF s = <<>> THEN <<>>
    ELSE InsertById(SortById(SubSeq(s, 1, Len(s) - 1)), s[Len(s)])

\* ------------------------------------------------------------ initial state
NoFile == [exists |-> FALSE, bytes |-> <<>>]
NoCall == [op |-> "none", force |-> FALSE, arg |-> 0, connected |-> FALSE,
           cached |-> FALSE, port |-> "", baud |-> 0, timeout |-> 0]
NoPrev == [valid |-> FALSE, list |-> <<>>]

InitLocals ==
    /\ stack = <<>>
    /\ pc = "idle"
    /\ force_refresh = FALSE
    /\ logs = <<>>
    /\ last_num_logs = -1
    /\ ll_iter = 0
    /\ log_id = 0
    /\ total_size = 0
    /\ offset = 0
    /\ retry_count = 0
    /\ count = 0
    /\ msg = NoMsg
    /\ wait_iter = 0
    /\ file = NoFile
    /\ all_logs = <<>>
    /\ all_i = 0
    /\ downloaded = <<>>
    /\ retLogs = <<>>
    /\ retPath = "-"
    /\ retAll = <<>>
    /\ retBool = FALSE
    /\ raised = FALSE
    /\ call = NoCall
    /\ tx = ZeroTx
    /\ rxAny = FALSE
    /\ beaconWaits = 0
    /\ reconnects = 0
    /\ prevList = NoPrev
    /\ accepted = <<>>
    /\ streak = 0
    /\ answered = FALSE
    /\ dlStatus = "none"
    /\ dlCause = "-"
    /\ cancelRequested = FALSE
    /\ attempts = <<>>

\* LogDownloader.__init__: a fresh interface, or the caller's (not yet
\* connected) one; no cached list
Init ==
    /\ own_connection \in BOOLEAN
    /\ \E p \in LinkParamsSet :
         mav = IF own_connection
               THEN NewInterface(p.port, p.baud, p.timeout)
               ELSE CallerInterface(p.port, p.baud, p.timeout)
    /\ cached_logs = NoneLogs
    /\ linkDead = FALSE
    /\ InitLocals

\* -------------------------------------------------------- calls and returns
\* The caller starts a top-level call: the records of the previous call are
\* dropped and the locals are fresh.
ResetLocals(force, arg) ==
    /\ force_refresh' = force
    /\ logs' = <<>>
    /\ last_num_logs' = -1
    /\ ll_iter' = 0
    /\ log_id' = arg
    /\ total_size' = 0
    /\ offset' = 0
    /\ retry_count' = 0
    /\ count' = 0
    /\ msg' = NoMsg
    /\ wait_iter' = 0
    /\ file' = NoFile
    /\ all_logs' = <<>>
    /\ all_i' = 0
    /\ downloaded' = <<>>
    /\ retLogs' = <<>>
    /\ retPath' = "-"
    /\ retAll' = <<>>
    /\ raised' = FALSE
    /\ rxAny' = FALSE
    /\ reconnects' = 0
    /\ accepted' = <<>>
    /\ streak' = 0
    /\ answered' = FALSE
    /\ dlStatus' = "none"
    /\ dlCause' = "-"
    /\ cancelRequested' = FALSE
    /\ attempts' = <<>>

CallRecord(op, force, arg) ==
    [op |-> op, force |-> force, arg |-> arg,
     connected |-> is_connected(mav), cached |-> ~cached_logs.none,
     port |-> mav.connection_string, baud |-> mav.baudrate,
     timeout |-> mav.timeout]

BeginCall(op, force, arg, entry) ==
    /\ stack = <<>>
    /\ pc = "idle"
    /\ stack' = <<op>>
    /\ pc' = entry
    /\ call' = CallRecord(op, force, arg)
    /\ prevList' = IF /\ op = "list_logs" /\ ~force
                      /\ call.op = "list_logs" /\ ~call.force
                      /\ call.connected /\ ~raised
                   THEN [valid |-> TRUE, list |-> retLogs]
                   ELSE NoPrev
    /\ ResetLocals(force, arg)
    /\ tx' = ZeroTx
    /\ retBool' = FALSE
    /\ beaconWaits' = 0
    /\ UNCHANGED objVars

\* where the caller of the innermost frame goes on after the callee returns;
\* download_latest returns what its download_log call returns (line 392)
Continuation(callee) ==
    IF Len(stack) = 1 THEN "idle"
    ELSE LET caller == stack[Len(stack) - 1]
         IN CASE caller = "download_log" -> "dl_after_list"
              [] caller = "download_latest" /\ callee = "list_logs" -> "latest_after_list"
              [] caller = "download_latest" -> "idle"
              [] caller = "download_all" /\ callee = "list_logs" -> "all_after_list"
              [] OTHER -> "all_after_dl"

\* the innermost frame returns
Pop(callee) ==
    /\ pc' = Continuation(callee)
    /\ stack' = IF Continuation(callee) = "idle" THEN <<>>
                ELSE SubSeq(stack, 1, Len(stack) - 1)

\* an exception no frame catches ends the top-level call
Unwind ==
    /\ stack' = <<>>
    /\ pc' = "idle"
    /\ raised' = TRUE

\* a frame calls self.list_logs(force_refresh=force)
StartListLogs(force) ==
    /\ stack' = Append(stack, "list_logs")
    /\ pc' = "ll_entry"
    /\ force_refresh' = force
    /\ logs' = <<>>
    /\ last_num_logs' = -1
    /\ ll_iter' = 0

\* a frame calls self.download_log(id, progress_callback=...)
StartDownload(id) ==
    /\ stack' = Append(stack, "download_log")
    /\ pc' = "dl_entry"
    /\ log_id' = id
    /\ total_size' = 0
    /\ offset' = 0
    /\ retry_count' = 0
    /\ count' = 0
    /\ msg' = NoMsg
    /\ wait_iter' = 0
    /\ file' = NoFile
    /\ accepted' = <<>>
    /\ streak' = 0
    /\ answered' = FALSE
    /\ dlStatus' = "none"
    /\ dlCause' = "-"
    /\ cancelRequested' = FALSE

\* ------------------------------------------- MAVLinkInterface / LogDownloader
\* LogDownloader.connect() with own_connection: self.mav.connect()
Connect ==
    /\ stack = <<>>
    /\ pc = "idle"
    /\ own_connection
    /\ \E outcome \in ConnectOutcomes, tgt \in Targets :
         /\ mav' = ConnectResult(mav, outcome, tgt)
         /\ retBool' = (outcome = "beacon")
         /\ beaconWaits' = IF outcome = "open_fails" THEN 0 ELSE 1
         /\ linkDead' = IF outcome = "open_fails" THEN linkDead ELSE FALSE
    /\ call' = CallRecord("connect", FALSE, 0)
    /\ prevList' = NoPrev
    /\ ResetLocals(FALSE, 0)
    /\ tx' = ZeroTx
    /\ UNCHANGED <<own_connection, cached_logs, stack, pc>>

\* The caller connects the interface it handed to the downloader
\* (MAVLinkInterface.connect on the shared object); LogDownloader.connect()
\* then reports self.mav.is_connected().
CallerConnect ==
    /\ stack = <<>>
    /\ pc = "idle"
    /\ ~own_connection
    /\ \E outcome \in ConnectOutcomes, tgt \in Targets :
         /\ mav' = ConnectResult(mav, outcome, tgt)
         /\ retBool' = is_connected(mav')
         /\ beaconWaits' = IF outcome = "open_fails" THEN 0 ELSE 1
         /\ linkDead' = IF outcome = "open_fails" THEN linkDead ELSE FALSE
    /\ call' = CallRecord("connect", FALSE, 0)
    /\ prevList' = NoPrev
    /\ ResetLocals(FALSE, 0)
    /\ tx' = ZeroTx
    /\ UNCHANGED <<own_connection, cached_logs, stack, pc>>

\* LogDownloader.disconnect()
Disconnect ==
    /\ stack = <<>>
    /\ pc = "idle"
    /\ mav' = IF own_connection THEN DisconnectResult(mav) ELSE mav
    /\ call' = CallRecord("disconnect", FALSE, 0)
    /\ prevList' = NoPrev
    /\ ResetLocals(FALSE, 0)
    /\ tx' = ZeroTx
    /\ retBool' = FALSE
    /\ beaconWaits' = 0
    /\ UNCHANGED <<own_connection, cached_logs, linkDead, stack, pc>>

\* CacheAfterErase that drops the cached list
CacheDroppedByErase(cached) == NoneLogs

\* lines 431-463: erase_all_logs does not assign self._cached_logs
CacheAfterErase(cached) == cached

\* EraseAllowed without the confirmation test
EraseAllowedUnconfirmed(confirm, m) == is_connected(m)

\* lines 441-447: the erase request is sent only for confirm=True on a
\* connected interface
EraseAllowed(confirm, m) == confirm /\ is_connected(m)

\* LogDownloader.erase_all_logs(confirm); call.force records confirm.  The
\* send is inside try/except: when it raises the call returns False.
EraseAllLogs(confirm) ==
    /\ stack = <<>>
    /\ pc = "idle"
    /\ call' = CallRecord("erase_all_logs", confirm, 0)
    /\ IF EraseAllowed(confirm, mav)
       THEN \E r \in SendRaises :
              /\ retBool' = ~r
              /\ tx' = IF r THEN ZeroTx ELSE [ZeroTx EXCEPT !.erase = 1]
       ELSE /\ retBool' = FALSE
            /\ tx' = ZeroTx
    /\ cached_logs' = CacheAfterErase(cached_logs)
    /\ prevList' = NoPrev
    /\ ResetLocals(FALSE, 0)
    /\ beaconWaits' = 0
    /\ UNCHANGED <<mav, own_connection, linkDead, stack, pc>>

\* ---------------------------------------------------------------- list_logs
\* CacheHit with the test "if self._cached_logs and not force_refresh"
CacheHitTruthy(cached, force) == cached.list # <<>> /\ ~force

\* line 120: the cached list is returned when there is one and no refresh is
\* forced
CacheHit(cached, force) == ~cached.none /\ ~force

\* lines 132-134, 142: the interface that replaces self.mav on a refresh
ReconnectInterface(m) == NewInterface(m.connection_string, m.baudrate, m.timeout)

\* NeedsReconnect that reconnects on every collection
NeedsReconnectAlways(force) == TRUE

\* NeedsReconnect that skips the reconnect when a list is cached
NeedsReconnectUncached(force) == force /\ cached_logs.none

\* line 130
NeedsReconnect(force) == force

\* line 201: the collection is complete
AllReceived(ls, m_num_logs) == Len(ls) >= m_num_logs

CallListLogs(force) == BeginCall("list_logs", force, 0, "ll_entry")

\* list_logs returns ls to its caller
LlReturn(ls) ==
    /\ retLogs' = ls
    /\ Pop("list_logs")

\* lines 119-156: cache check, connection check, forced reconnect, request
LlEntry ==
    /\ pc = "ll_entry"
    /\ \/ /\ CacheHit(cached_logs, force_refresh)
          /\ LlReturn(cached_logs.list)
          /\ UNCHANGED <<objVars, llVars, wireVars, raised>>
       \/ /\ ~CacheHit(cached_logs, force_refresh)
          /\ ~is_connected(mav)
          /\ LlReturn(<<>>)
          /\ UNCHANGED <<objVars, llVars, wireVars, raised>>
       \/ /\ ~CacheHit(cached_logs, force_refresh)
          /\ is_connected(mav)
          /\ NeedsReconnect(force_refresh)
          /\ \E outcome \in ConnectOutcomes, tgt \in Targets :
               /\ mav' = ConnectResult(ReconnectInterface(mav), outcome, tgt)
               /\ beaconWaits' = beaconWaits + (IF outcome = "open_fails" THEN 0 ELSE 1)
               /\ IF outcome = "beacon"
                  THEN /\ tx' = [tx EXCEPT !.list = @ + 1]
                       /\ pc' = "ll_loop"
                       /\ UNCHANGED <<stack, retLogs>>
                  ELSE /\ LlReturn(<<>>)
                       /\ UNCHANGED tx
          /\ reconnects' = reconnects + 1
          /\ linkDead' = FALSE
          /\ UNCHANGED <<own_connection, cached_logs, llVars, rxAny, raised>>
       \/ /\ ~CacheHit(cached_logs, force_refresh)
          /\ is_connected(mav)
          /\ ~NeedsReconnect(force_refresh)
          /\ \E r \in SendRaises :
               IF r
               THEN /\ Unwind
                    /\ UNCHANGED <<tx, retLogs>>
               ELSE /\ tx' = [tx EXCEPT !.list = @ + 1]
                    /\ pc' = "ll_loop"
                    /\ UNCHANGED <<stack, retLogs, raised>>
          /\ UNCHANGED <<objVars, llVars, rxAny, beaconWaits, reconnects>>
    /\ UNCHANGED <<dlVars, allVars, retPath, retAll, retBool, call, prevList,
                   dlGhost, attempts>>

\* LlFinishOn that sends no LOG_REQUEST_END
LlFinishNoMarker(ls, dead) ==
    /\ tx' = tx
    /\ cached_logs' = SomeLogs(SortById(ls))
    /\ LlReturn(SortById(ls))

\* lines 211-229: LOG_REQUEST_END (errors swallowed), sort, cache, return;
\* dead: the link has failed by the time of the send
LlFinishOn(ls, dead) ==
    /\ \E r \in SendRaisesOn(dead) :
         tx' = IF r THEN tx ELSE [tx EXCEPT !.end = @ + 1]
    /\ cached_logs' = SomeLogs(SortById(ls))
    /\ LlReturn(SortById(ls))

LlFinish(ls) == LlFinishOn(ls, linkDead)

\* line 166: the collection window is over
LlDeadline ==
    /\ pc = "ll_loop"
    /\ LlFinish(logs)
    /\ msg' = NoMsg
    /\ UNCHANGED <<mav, own_connection, linkDead, llVars, rxAny, beaconWaits,
                   reconnects, raised, log_id, total_size, offset, retry_count,
                   count, wait_iter, file, allVars, retPath, retAll, retBool, call,
                   prevList, dlGhost, attempts>>

\* lines 167-209: one recv_match call of the collection loop
LlRecv ==
    /\ pc = "ll_loop"
    /\ ll_iter < MaxListRecv
    /\ ll_iter' = ll_iter + 1
    /\ rxAny' = TRUE
    /\ \/ \* "device reports readiness": continue
          /\ UNCHANGED <<cached_logs, linkDead, logs, last_num_logs, msg, tx, stack,
                         pc, retLogs>>
       \/ \* another exception: break
          /\ linkDead' = TRUE
          /\ LlFinishOn(logs, TRUE)
          /\ msg' = NoMsg
          /\ UNCHANGED <<logs, last_num_logs>>
       \/ \* LOG_ENTRY
          /\ ~linkDead
          /\ Len(logs) < MaxEntries
          /\ \E e \in DeviceLogs \ {logs[i] : i \in 1 .. Len(logs)}, n \in NumLogsVals :
               /\ last_num_logs' = IF last_num_logs = -1 THEN n ELSE last_num_logs
               /\ logs' = Append(logs, e)
               /\ IF AllReceived(logs', n)
                  THEN /\ LlFinish(logs')
                       /\ msg' = NoMsg
                  ELSE /\ msg' = LogEntryMsg(e)
                       /\ UNCHANGED <<cached_logs, tx, stack, pc, retLogs>>
          /\ UNCHANGED linkDead
       \/ \* LOG_ENTRY of a device that holds no logs (num_logs = 0)
          /\ ~linkDead
          /\ logs = <<>>
          /\ last_num_logs' = 0
          /\ logs' = <<NoLogsEntry>>
          /\ IF AllReceived(logs', 0)
             THEN /\ LlFinish(logs')
                  /\ msg' = NoMsg
             ELSE /\ msg' = LogEntryMsg(NoLogsEntry)
                  /\ UNCHANGED <<cached_logs, tx, stack, pc, retLogs>>
          /\ UNCHANGED linkDead
       \/ \* a message of another type
          /\ ~linkDead
          /\ msg' = Stray
          /\ UNCHANGED <<cached_logs, linkDead, logs, last_num_logs, tx, stack, pc,
                         retLogs>>
       \/ \* no message within 0.5 s, nothing collected yet
          /\ logs = <<>>
          /\ msg' = NoMsg
          /\ UNCHANGED <<cached_logs, linkDead, logs, last_num_logs, tx, stack, pc,
                         retLogs>>
       \/ \* no message within 0.5 s, some entries collected: break
          /\ logs # <<>>
          /\ LlFinish(logs)
          /\ msg' = NoMsg
          /\ UNCHANGED <<linkDead, logs, last_num_logs>>
    /\ UNCHANGED <<mav, own_connection, force_refresh, beaconWaits, reconnects,
                   raised, log_id, total_size, offset, retry_count, count,
                   wait_iter, file, allVars, retPath, retAll, retBool, call,
                   prevList, dlGhost, attempts>>

\* ------------------------------------------------------------- download_log
\* FindLog that takes the first entry whatever its id
FindLogFirst(ls, id) == IF ls # <<>> THEN 1 ELSE 0

\* line 254: index in ls of the first entry with this id, 0 when there is none
FindLog(ls, id) ==
    IF \E i \in 1 .. Len(ls) : ls[i].id = id
    THEN CHOOSE i \in 1 .. Len(ls) :
            /\ ls[i].id = id
            /\ \A j \in 1 .. i - 1 : ls[j].id # id
    ELSE 0

\* line 279: count = min(LOG_DATA_CHUNK_SIZE, total_size - offset)
RequestLength(total, ofs) ==
    IF total - ofs < LOG_DATA_CHUNK_SIZE THEN total - ofs ELSE LOG_DATA_CHUNK_SIZE

\* Matches that takes any message for the awaited chunk
MatchesAnyMessage(m, id, ofs) == TRUE

\* Matches without the id test
MatchesAnyId(m, id, ofs) == m.type = "LOG_DATA" /\ m.ofs = ofs

\* Matches that also takes a chunk of an earlier offset
MatchesUpTo(m, id, ofs) == m.type = "LOG_DATA" /\ m.id = id /\ m.ofs <= ofs

\* Matches without the offset test
MatchesAnyOffset(m, id, ofs) == m.type = "LOG_DATA" /\ m.id = id

\* line 316: the message is the awaited chunk
Matches(m, id, ofs) == m.type = "LOG_DATA" /\ m.id = id /\ m.ofs = ofs

\* WriteSlice that writes the whole data field
WriteWhole(data, data_len) == data

\* line 321: data[:data_len]
WriteSlice(data, data_len) ==
    SubSeq(data, 1, IF data_len < Len(data) THEN data_len ELSE Len(data))

\* IsLastChunk that never ends the download
IsLastChunkNever(m) == FALSE

\* IsLastChunk with <= for <
IsLastChunkOrFull(m) == m.count <= LOG_DATA_CHUNK_SIZE

\* line 350: msg.count < LOG_DATA_CHUNK_SIZE
IsLastChunk(m) == m.count < LOG_DATA_CHUNK_SIZE

\* RetriesExhausted with > for >=
RetriesExhaustedLate(rc) == rc > max_retries

\* line 338: retry_count >= max_retries
RetriesExhausted(rc) == rc >= max_retries

\* a LOG_DATA offset other than ofs: the chunk before it (a retransmission),
\* or the chunk after the first one
OtherOffset(ofs) ==
    IF ofs >= LOG_DATA_CHUNK_SIZE THEN ofs - LOG_DATA_CHUNK_SIZE ELSE LOG_DATA_CHUNK_SIZE

\* a log id other than id
OtherId(id) == CHOOSE i \in LogIds : i # id

\* messages recv_match may return while download_log waits for (id, ofs): a
\* LOG_DATA for (id, ofs) with any count and content, a LOG_DATA of the same
\* log for another offset, a LOG_DATA of another log for the same offset, or
\* stray telemetry
RxMsgs(id, ofs) ==
    {Stray}
    \cup {LogData(id, ofs, c, sd) : c \in RespCounts, sd \in Seeds}
    \cup {LogData(id, OtherOffset(ofs), LOG_DATA_CHUNK_SIZE, 0),
          LogData(OtherId(id), ofs, LOG_DATA_CHUNK_SIZE, 0)}

CallDownloadLog(id) == BeginCall("download_log", FALSE, id, "dl_entry")

\* lines 246, 258: return None before the try statement
DlReturnEarly(cause) ==
    /\ retPath' = "None"
    /\ dlStatus' = "failed"
    /\ dlCause' = cause
    /\ Pop("download_log")

\* line 254-273: look the log up, open the output file
DlLookup(ls) ==
    IF FindLog(ls, log_id) = 0
    THEN /\ DlReturnEarly("unknown_id")
         /\ UNCHANGED <<total_size, offset, retry_count, file>>
    ELSE /\ total_size' = ls[FindLog(ls, log_id)].size
         /\ offset' = 0
         /\ retry_count' = 0
         /\ file' = [exists |-> TRUE, bytes |-> <<>>]
         /\ dlStatus' = "running"
         /\ pc' = "dl_loop"
         /\ UNCHANGED <<stack, retPath, dlCause>>

\* lines 244-252
DlEntry ==
    /\ pc = "dl_entry"
    /\ \/ /\ ~is_connected(mav)
          /\ DlReturnEarly("not_connected")
          /\ UNCHANGED <<llVars, total_size, offset, retry_count, file>>
       \/ /\ is_connected(mav)
          /\ cached_logs.none
          /\ StartListLogs(FALSE)
          /\ UNCHANGED <<total_size, offset, retry_count, file, retPath, dlStatus,
                         dlCause>>
       \/ /\ is_connected(mav)
          /\ ~cached_logs.none
          /\ DlLookup(cached_logs.list)
          /\ UNCHANGED llVars
    /\ UNCHANGED <<objVars, log_id, count, msg, wait_iter, allVars, retLogs, retAll,
                   retBool, raised, call, wireVars, prevList, accepted, streak, answered,
                   cancelRequested, attempts>>

\* line 250 returned
DlAfterList ==
    /\ pc = "dl_after_list"
    /\ DlLookup(retLogs)
    /\ UNCHANGED <<objVars, llVars, log_id, count, msg, wait_iter, allVars, retLogs,
                   retAll, retBool, raised, call, wireVars, prevList, accepted,
                   streak, answered, cancelRequested, attempts>>

\* lines 364-369: the finally clause sends LOG_REQUEST_END; when the send
\* raises, the exception replaces the return value; dead: the link has
\* failed by the time of the send
DlFinallyOn(ret, cause, dead) ==
    \E r \in SendRaisesOn(dead) :
        IF r
        THEN /\ Unwind
             /\ dlStatus' = "raised"
             /\ dlCause' = cause
             /\ UNCHANGED <<tx, retPath>>
        ELSE /\ tx' = [tx EXCEPT !.end = @ + 1]
             /\ retPath' = ret
             /\ dlStatus' = IF ret = "Path" THEN "success" ELSE "failed"
             /\ dlCause' = cause
             /\ Pop("download_log")
             /\ UNCHANGED raised

DlFinally(ret, cause) == DlFinallyOn(ret, cause, linkDead)

\* lines 357-362: the except clause removes the file and returns None
DlExceptOn(cause, dead) ==
    /\ file' = NoFile
    /\ DlFinallyOn("None", cause, dead)

DlExcept(cause) == DlExceptOn(cause, linkDead)

\* lines 277-287: loop test and LOG_REQUEST_DATA
DlLoop ==
    /\ pc = "dl_loop"
    /\ \/ /\ ~(offset < total_size)
          /\ DlFinally("Path", "-")
          /\ UNCHANGED <<count, wait_iter, msg, file, streak, answered>>
       \/ /\ offset < total_size
          /\ count' = RequestLength(total_size, offset)
          /\ wait_iter' = 0
          /\ msg' = NoMsg
          /\ answered' = FALSE
          /\ streak' = IF answered THEN 0 ELSE streak
          /\ \E r \in SendRaises :
               IF r
               THEN DlExcept("link_error")
               ELSE /\ tx' = [tx EXCEPT !.data = TRUE]
                    /\ pc' = "dl_wait"
                    /\ UNCHANGED <<stack, file, retPath, raised, dlStatus, dlCause>>
    /\ UNCHANGED <<objVars, llVars, log_id, total_size, offset, retry_count, allVars,
                   retLogs, retAll, retBool, call, rxAny, beaconWaits, reconnects,
                   prevList, accepted, cancelRequested,
                   attempts>>

\* lines 297-334: one recv_match call of the chunk window
DlRecv ==
    /\ pc = "dl_wait"
    /\ wait_iter < MaxWait
    /\ wait_iter' = wait_iter + 1
    /\ rxAny' = TRUE
    /\ \/ \* "device reports readiness": continue
          /\ UNCHANGED <<linkDead, msg, offset, retry_count, file, accepted, streak, answered,
                         stack, pc, tx, retPath, raised, dlStatus, dlCause>>
       \/ \* another exception: re-raised into the except clause
          /\ linkDead' = TRUE
          /\ DlExceptOn("link_error", TRUE)
          /\ UNCHANGED <<msg, offset, retry_count, accepted, streak, answered>>
       \/ \* no message within 1 s
          /\ msg' = NoMsg
          /\ UNCHANGED <<linkDead, offset, retry_count, file, accepted, streak, answered,
                         stack, pc, tx, retPath, raised, dlStatus, dlCause>>
       \/ \* a message that is not the awaited chunk
          /\ ~linkDead
          /\ \E m \in RxMsgs(log_id, offset) :
               /\ ~Matches(m, log_id, offset)
               /\ msg' = m
          /\ UNCHANGED <<linkDead, offset, retry_count, file, accepted, streak, answered,
                         stack, pc, tx, retPath, raised, dlStatus, dlCause>>
       \/ \* the awaited chunk, written and reported
          /\ ~linkDead
          /\ \E m \in RxMsgs(log_id, offset) :
               /\ Matches(m, log_id, offset)
               /\ msg' = m
               /\ file' = [file EXCEPT !.bytes =
                             @ \o WriteSlice(Payload(m.seed, m.id, m.ofs), m.count)]
               /\ offset' = offset + m.count
               /\ accepted' = Append(accepted, m)
               /\ IF IsLastChunk(m)
                  THEN DlFinally("Path", "-")
                  ELSE /\ pc' = "dl_loop"
                       /\ UNCHANGED <<stack, tx, retPath, raised, dlStatus, dlCause>>
          /\ retry_count' = 0
          /\ answered' = TRUE
          /\ UNCHANGED <<linkDead, streak>>
       \/ \* the awaited chunk, f.write raises
          /\ ~linkDead
          /\ \E m \in RxMsgs(log_id, offset) :
               /\ Matches(m, log_id, offset)
               /\ msg' = m
          /\ DlExcept("write_error")
          /\ UNCHANGED <<linkDead, offset, retry_count, accepted, streak, answered>>
       \/ \* the awaited chunk, written; progress_callback raises
          /\ ~linkDead
          /\ \E m \in RxMsgs(log_id, offset) :
               /\ Matches(m, log_id, offset)
               /\ msg' = m
               /\ offset' = offset + m.count
          /\ retry_count' = 0
          /\ UNCHANGED <<streak, answered>>
          /\ DlExcept("callback_error")
          /\ UNCHANGED <<linkDead, accepted>>
    /\ UNCHANGED <<mav, own_connection, cached_logs, llVars, log_id, total_size,
                   count, allVars, retLogs, retAll, retBool, call, beaconWaits,
                   reconnects, prevList, cancelRequested, attempts>>

\* lines 297, 336-344: the 15 s window ended without the awaited chunk
DlDeadline ==
    /\ pc = "dl_wait"
    /\ wait_iter >= 1
    /\ retry_count' = retry_count + 1
    /\ streak' = streak + 1
    /\ IF RetriesExhausted(retry_count')
       THEN DlFinally("None", "timeout")
       ELSE /\ pc' = "dl_loop"
            /\ UNCHANGED <<stack, tx, retPath, raised, dlStatus, dlCause>>
    /\ UNCHANGED <<objVars, llVars, log_id, total_size, offset, count, msg,
                   wait_iter, file, allVars, retLogs, retAll, retBool, call, rxAny,
                   beaconWaits, reconnects, prevList, accepted, answered,
                   cancelRequested, attempts>>

\* The caller raises its cancellation signal while a download is under way
\* and some chunk has been accepted.  A signal raised during a chunk window
\* is seen at the next loop test, so it is raised here right before that test.
CallerCancel ==
    /\ pc = "dl_loop"
    /\ offset < total_size
    /\ accepted # <<>>
    /\ ~cancelRequested
    /\ cancelRequested' = TRUE
    /\ UNCHANGED <<objVars, stack, pc, llVars, dlVars, allVars, retVars, call,
                   wireVars, prevList, accepted, streak, answered, dlStatus,
                   dlCause, attempts>>

\* ---------------------------------------------- download_latest, download_all
\* Latest by id instead of time_utc
LatestById(ls) ==
    CHOOSE i \in 1 .. Len(ls) : \A j \in 1 .. Len(ls) : ls[j].id <= ls[i].id

\* line 389: max(logs, key=lambda x: x.time_utc), the first of the maximal
\* entries; index in ls
Latest(ls) ==
    CHOOSE i \in 1 .. Len(ls) :
        /\ \A j \in 1 .. Len(ls) : ls[j].time_utc <= ls[i].time_utc
        /\ \A j \in 1 .. i - 1 : ls[j].time_utc < ls[i].time_utc

CallDownloadLatest == BeginCall("download_latest", FALSE, 0, "latest_entry")

\* line 382
LatestEntry ==
    /\ pc = "latest_entry"
    /\ StartListLogs(cached_logs.none)
    /\ UNCHANGED <<objVars, dlVars, allVars, retVars, call, wireVars, prevList,
                   dlGhost, attempts>>

\* lines 384-392
LatestAfterList ==
    /\ pc = "latest_after_list"
    /\ \/ /\ retLogs = <<>>
          /\ retPath' = "None"
          /\ Pop("download_latest")
          /\ UNCHANGED <<dlVars, dlGhost>>
       \/ /\ retLogs # <<>>
          /\ StartDownload(retLogs[Latest(retLogs)].id)
          /\ UNCHANGED retPath
    /\ UNCHANGED <<objVars, llVars, allVars, retLogs, retAll, retBool, raised, call,
                   wireVars, prevList, attempts>>

CallDownloadAll == BeginCall("download_all", FALSE, 0, "all_entry")

\* line 404
AllEntry ==
    /\ pc = "all_entry"
    /\ StartListLogs(FALSE)
    /\ UNCHANGED <<objVars, dlVars, allVars, retVars, call, wireVars, prevList,
                   dlGhost, attempts>>

\* lines 406-421: empty catalog, or the first download
AllAfterList ==
    /\ pc = "all_after_list"
    /\ \/ /\ retLogs = <<>>
          /\ retAll' = <<>>
          /\ Pop("download_all")
          /\ UNCHANGED <<dlVars, dlGhost, allVars>>
       \/ /\ retLogs # <<>>
          /\ all_logs' = retLogs
          /\ all_i' = 1
          /\ downloaded' = <<>>
          /\ StartDownload(retLogs[1].id)
          /\ UNCHANGED retAll
    /\ UNCHANGED <<objVars, llVars, retLogs, retPath, retBool, raised, call,
                   wireVars, prevList, attempts>>

\* lines 423-429: record the outcome, go on with the next entry or return
AllAfterDl ==
    /\ pc = "all_after_dl"
    /\ downloaded' = IF retPath = "Path"
                     THEN Append(downloaded, all_logs[all_i].id)
                     ELSE downloaded
    /\ attempts' = Append(attempts, [id |-> all_logs[all_i].id, ok |-> retPath = "Path"])
    /\ \/ /\ all_i < Len(all_logs)
          /\ all_i' = all_i + 1
          /\ StartDownload(all_logs[all_i'].id)
          /\ UNCHANGED retAll
       \/ /\ all_i = Len(all_logs)
          /\ retAll' = downloaded'
          /\ Pop("download_all")
          /\ UNCHANGED <<all_i, dlVars, dlGhost>>
    /\ UNCHANGED <<objVars, llVars, all_logs, retLogs, retPath, retBool, raised,
                   call, wireVars, prevList>>

\* ------------------------------------------------------------ specification
\* Connection and catalog operations.
Next ==
    \/ Connect
    \/ CallerConnect
    \/ Disconnect
    \/ \E c \in BOOLEAN : EraseAllLogs(c)
    \/ \E f \in BOOLEAN : CallListLogs(f)
    \/ LlEntry
    \/ LlRecv
    \/ LlDeadline

Spec == Init /\ [][Next]_vars

\* The lists a catalog collection can leave in the cache: sorted by id, at
\* most MaxEntries entries.
RECURSIVE ListsUpTo(_)
ListsUpTo(n) ==
    IF n = 0 THEN {<<>>}
    ELSE ListsUpTo(n - 1)
         \cup {l \in {Append(x, e) : x \in ListsUpTo(n - 1), e \in DeviceLogs} :
                 \A i \in 1 .. Len(l) - 1 : l[i] # l[Len(l)]}

CatalogLists == {SortById(l) : l \in ListsUpTo(MaxEntries)}

\* The states a downloader can be in between two calls: never connected or
\* connected, without or with a catalog in the cache; with a catalog the
\* link may have failed during the collection.
InitDL ==
    /\ \E p \in {x \in LinkParamsSet : x.baud = 57600} :
         mav \in {NewInterface(p.port, p.baud, p.timeout),
                  ConnectResult(NewInterface(p.port, p.baud, p.timeout),
                                "beacon", <<1, 1>>)}
    /\ own_connection = TRUE
    /\ cached_logs \in IF is_connected(mav)
                       THEN {NoneLogs} \cup {SomeLogs(l) : l \in CatalogLists}
                       ELSE {NoneLogs}
    /\ linkDead \in (IF cached_logs.none THEN {FALSE} ELSE BOOLEAN)
    /\ InitLocals

\* One download or erase operation on such a downloader.
NextDL ==
    \/ /\ call.op = "none"
       /\ \/ \E id \in LogIds : CallDownloadLog(id)
          \/ CallDownloadLatest
          \/ CallDownloadAll
          \/ \E c \in BOOLEAN : EraseAllLogs(c)
    \/ DlEntry
    \/ DlAfterList
    \/ DlLoop
    \/ DlRecv
    \/ DlDeadline
    \/ LatestEntry
    \/ LatestAfterList
    \/ AllEntry
    \/ AllAfterList
    \/ AllAfterDl
    \/ LlEntry
    \/ LlRecv
    \/ LlDeadline

SpecDL == InitDL /\ [][NextDL]_vars

\* One download_log call on such a downloader, under the scheduling of
\* sequential code: the call in progress takes its next step, and a chunk
\* window (at most MaxWait recv_match calls within its 15 s) ends.
NextOne ==
    \/ /\ call.op = "none"
       /\ \E id \in LogIds : CallDownloadLog(id)
    \/ DlEntry
    \/ DlAfterList
    \/ DlLoop
    \/ DlRecv
    \/ DlDeadline
    \/ LlEntry
    \/ LlRecv
    \/ LlDeadline

FairSpecOne == InitDL /\ [][NextOne]_vars /\ WF_vars(NextOne)

\* The same, with a caller that may raise its cancellation signal.
NextCancel ==
    \/ NextDL
    \/ CallerCancel

SpecCancel == InitDL /\ [][NextCancel]_vars

\* ------------------------------------------------------------------ claims
\* the chunk accepted last answered the request last sent
JustAccepted == answered /\ msg = accepted[Len(accepted)]

\* the bytes of the accepted chunks' payloads, in the order of acceptance
RECURSIVE AcceptedBytes(_)
AcceptedBytes(acc) ==
    IF acc = <<>> THEN <<>>
    ELSE LET m == acc[Len(acc)]
         IN AcceptedBytes(SubSeq(acc, 1, Len(acc) - 1))
            \o SubSeq(Payload(m.seed, m.id, m.ofs), 1, m.count)

\* the sum of the accepted chunks' returned lengths
RECURSIVE AcceptedLength(_)
AcceptedLength(acc) ==
    IF acc = <<>> THEN 0
    ELSE AcceptedLength(SubSeq(acc, 1, Len(acc) - 1)) + acc[Len(acc)].count

\* C1 (as claimed): a download_log call that failed after it opened the output
\* file (retries exhausted, link error, write error, callback error) leaves
\* no output file, and a call that succeeded leaves one.
C1_NoPartialFile ==
    /\ (/\ dlStatus \in {"failed", "raised"}
        /\ dlCause \in {"timeout", "link_error", "write_error", "callback_error"})
       => ~file.exists
    /\ dlStatus = "success" => file.exists

\* C2: with retry limit 3, a download is never still running after 3
\* consecutive timed-out windows at one offset: it has ended without success,
\* and it fails by timeout only then, so that after 2 timed-out windows the
\* third request is still made and with its answer accepted the download
\* goes on or has succeeded.
C2_RetryBound ==
    /\ dlStatus = "running" => streak < 3
    /\ streak >= 3 => /\ dlStatus \in {"failed", "raised"}
                      /\ dlCause = "timeout"
                      /\ retPath # "Path"
    /\ dlCause = "timeout" => streak = 3
    /\ (JustAccepted /\ streak = 2) => dlStatus \in {"running", "success"}

\* C2 witness: a download that succeeded with its last chunk accepted on the
\* third request, after 2 timed-out windows.
C2_Witness ==
    /\ dlStatus = "success"
    /\ streak = 2
    /\ JustAccepted
    /\ Len(accepted) >= 2

\* C3: while the download runs and once it succeeded, the output file's bytes
\* are the concatenation of the accepted chunks' payloads (each cut to its
\* returned length) in offset order, and the file's length is the sum of the
\* returned lengths.
C3_RoundTrip ==
    (file.exists /\ dlStatus \in {"running", "success"})
    => /\ file.bytes = AcceptedBytes(accepted)
       /\ Len(file.bytes) = AcceptedLength(accepted)
       /\ \A i \in 1 .. Len(accepted) :
            accepted[i].ofs = AcceptedLength(SubSeq(accepted, 1, i - 1))

\* C3 witness: a successful download of several chunks that ended on a short
\* chunk, with a file shorter than the advertised size.
C3_Witness ==
    /\ dlStatus = "success"
    /\ Len(accepted) >= 2
    /\ accepted[Len(accepted)].count < count
    /\ Len(file.bytes) > 0
    /\ Len(file.bytes) # total_size

\* C4: a recv_match call of the chunk window that raises no link error and
\* leaves in msg a LOG_DATA whose offset is not the current offset, or whose
\* id is not the requested id, leaves the file, the offset, the retry count
\* and the accepted chunks as they are and stays in the window.
C4_StaleChunkDiscarded ==
    [][(/\ pc = "dl_wait"
        /\ wait_iter' = wait_iter + 1
        /\ ~linkDead'
        /\ msg'.type = "LOG_DATA"
        /\ (msg'.ofs # offset \/ msg'.id # log_id))
       => (/\ file' = file
           /\ offset' = offset
           /\ accepted' = accepted
           /\ retry_count' = retry_count
           /\ pc' = "dl_wait"
           /\ dlStatus' = dlStatus)]_vars

\* C4 witness: in a chunk window after the first chunk, the message last
\* received is a LOG_DATA of the requested log for an earlier offset.
C4_Witness ==
    /\ pc = "dl_wait"
    /\ offset > 0
    /\ msg.type = "LOG_DATA"
    /\ msg.id = log_id
    /\ msg.ofs # offset

\* C5: right after a chunk is accepted, a returned length below the requested
\* length means the download has ended as a success, and a returned length
\* equal to the requested length with the offset below the total size means
\* the download is still running.
C5_ShortChunkEnds ==
    JustAccepted
    => /\ msg.count < count => dlStatus = "success"
       /\ (msg.count = count /\ offset < total_size) => dlStatus = "running"

\* C5 witness: a download that ended as a success on a short chunk with the
\* offset below the advertised total size.
C5_Witness ==
    /\ JustAccepted
    /\ msg.count < count
    /\ offset < total_size
    /\ dlStatus = "success"

\* C6 (as claimed): once the cancellation signal is raised before a loop
\* test, the iteration does not begin: the call has failed and no file is
\* left.
C6_CancelStopsDownload ==
    (cancelRequested /\ pc # "dl_loop")
    => (dlStatus = "failed" /\ ~file.exists)

\* C7: a list_logs(False) call that returns right after another
\* list_logs(False) call returned on the connected downloader returns the
\* same list, and has sent nothing and called recv_match not once.
C7_CatalogIdempotence ==
    (/\ pc = "idle"
     /\ call.op = "list_logs"
     /\ prevList.valid
     /\ ~raised)
    => /\ retLogs = prevList.list
       /\ tx = ZeroTx
       /\ ~rxAny
       /\ beaconWaits = 0

\* C7 witness: the second of two such calls returned a non-empty list.
C7_Witness ==
    /\ pc = "idle"
    /\ call.op = "list_logs"
    /\ prevList.valid
    /\ ~raised
    /\ Len(retLogs) >= 2

\* C8 (as claimed): every list_logs(True) call has made one
\* disconnect/reconnect cycle and exactly one beacon wait when it returns.
C8_EveryForcedCallReconnects ==
    (pc = "idle" /\ call.op = "list_logs" /\ call.force)
    => (reconnects = 1 /\ beaconWaits = 1)

\* C8 (amended): a list_logs(True) call made while is_connected() holds makes
\* one disconnect/reconnect cycle with the same link parameters, with one
\* beacon wait when the new link opens and none when it does not, and sends
\* its one catalog request only after that beacon was received; made while
\* is_connected() is false it reconnects nothing and sends nothing.
C8_ForcedRefreshReconnects ==
    (call.op = "list_logs" /\ call.force /\ pc # "ll_entry")
    => IF call.connected
       THEN /\ reconnects = 1
            /\ beaconWaits = (IF mav.master.state = "open" THEN 1 ELSE 0)
            /\ mav.connection_string = call.port
            /\ mav.baudrate = call.baud
            /\ mav.timeout = call.timeout
            /\ mav.master.state = "open"
               => (mav.master.port = call.port /\ mav.master.baud = call.baud)
            /\ tx.list <= 1
            /\ tx.list = 1 => (beaconWaits = 1 /\ is_connected(mav))
       ELSE /\ reconnects = 0
            /\ beaconWaits = 0
            /\ tx = ZeroTx

\* C8 witness: a forced refresh with a list already cached has reconnected
\* and sent its catalog request.
C8_Witness ==
    /\ call.op = "list_logs"
    /\ call.force
    /\ call.connected
    /\ call.cached
    /\ pc = "ll_loop"
    /\ reconnects = 1
    /\ beaconWaits = 1
    /\ tx.list = 1

\* C9: the log id download_latest passes to download_log is the id of an
\* entry of the list it got whose time_utc is not below that of any entry.
C9_LatestByTime ==
    (call.op = "download_latest" /\ log_id # 0)
    => \E i \in 1 .. Len(retLogs) :
          /\ retLogs[i].id = log_id
          /\ \A j \in 1 .. Len(retLogs) : retLogs[j].time_utc <= retLogs[i].time_utc

\* C9 witness: from the list (id 1 at time 500, id 3 at time 100)
\* download_latest downloaded id 1, not the greatest id.
C9_Witness ==
    /\ call.op = "download_latest"
    /\ Len(retLogs) = 2
    /\ retLogs[2].id = 3
    /\ log_id = 1
    /\ dlStatus = "success"

\* C10 (as claimed): a download_all call that entered its loop ends by
\* returning, after one download_log call per entry of the list in list
\* order, the files of the calls that succeeded.
C10_BatchGoesOn ==
    (pc = "idle" /\ call.op = "download_all" /\ all_logs # <<>>)
    => /\ ~raised
       /\ Len(attempts) = Len(all_logs)
       /\ \A i \in 1 .. Len(attempts) : attempts[i].id = all_logs[i].id
       /\ retAll = downloaded
       /\ Len(retAll) = Cardinality({i \in 1 .. Len(attempts) : attempts[i].ok})

C12_EmptyCatalogIsEmptyList ==
    (/\ call.op = "list_logs"
     /\ call.connected
     /\ pc = "idle"
     /\ tx.list = 1
     /\ (logs = <<>> \/ last_num_logs = 0))
    => (~raised /\ retLogs = <<>>)

\* C13: in a list_logs call no LOG_REQUEST_END is sent before or during the
\* collection loop; when the call has sent its LOG_REQUEST_LIST and is over,
\* it has returned the list it cached, without an exception, after one
\* LOG_REQUEST_END send, which went out unless the link had failed and the
\* send raised; a call that started no collection sends no marker.
C13_EndMarkerAfterCollection ==
    call.op = "list_logs"
    => /\ pc \in {"ll_entry", "ll_loop"} => tx.end = 0
       /\ (pc = "idle" /\ tx.list = 1)
          => /\ ~raised
             /\ tx.end <= 1
             /\ ~linkDead => tx.end = 1
             /\ ~cached_logs.none
             /\ retLogs = cached_logs.list
       /\ (pc = "idle" /\ tx.list = 0) => tx.end = 0

\* C13 witness: a collection ended by a receive error with one entry
\* collected has returned that partial list, the marker sent.
C13_Witness ==
    /\ call.op = "list_logs"
    /\ pc = "idle"
    /\ tx.list = 1
    /\ linkDead
    /\ tx.end = 1
    /\ Len(retLogs) = 1
    /\ last_num_logs > 1

\* C14 (as claimed): a download_log call on a connected handle that ended on
\* an unknown log id, exhausted retries, a link error or a write error has
\* returned None, after sending LOG_REQUEST_END unless that send failed on a
\* failed link, and a failed send has not changed the outcome.
C14_EndMarkerOnEveryError ==
    (/\ call.op = "download_log"
     /\ call.connected
     /\ call.cached
     /\ pc = "idle"
     /\ dlCause \in {"unknown_id", "timeout", "link_error", "write_error"})
    => /\ ~raised
       /\ retPath = "None"
       /\ tx.end = 1 \/ linkDead

\* C15: a download_log call runs list_logs only when nothing was cached at
\* its start, with force_refresh false and without a reconnect; while it
\* transfers, total_size is the size of the cached catalog's entry with the
\* requested id; and when the id is absent from the catalog it returns None
\* with no LOG_REQUEST_DATA sent and no output file created.
C15_SizeFromCatalog ==
    call.op = "download_log"
    => /\ (pc \in {"ll_entry", "ll_loop"} \/ tx.list > 0)
          => (~call.cached /\ ~force_refresh)
       /\ reconnects = 0
       /\ dlStatus = "running"
          => /\ ~cached_logs.none
             /\ \E i \in 1 .. Len(cached_logs.list) :
                  /\ cached_logs.list[i].id = log_id
                  /\ cached_logs.list[i].size = total_size
       /\ dlCause = "unknown_id"
          => /\ \A i \in 1 .. Len(cached_logs.list) : cached_logs.list[i].id # log_id
             /\ retPath = "None"
             /\ ~tx.data
             /\ ~file.exists
             /\ accepted = <<>>

\* C15 witness: download_log with nothing cached fetched a non-empty catalog
\* that lacks the requested id, and returned None.
C15_Witness ==
    /\ call.op = "download_log"
    /\ ~call.cached
    /\ tx.list = 1
    /\ retLogs # <<>>
    /\ pc = "idle"
    /\ dlCause = "unknown_id"
    /\ retPath = "None"

\* C16 (as claimed): a list_logs or erase_all_logs call made while
\* is_connected() is false sends nothing and returns the empty list,
\* respectively False.
C16_DisconnectedOpsFail ==
    (call.op \in {"list_logs", "erase_all_logs"} /\ ~call.connected /\ pc = "idle")
    => /\ tx = ZeroTx
       /\ ~rxAny
       /\ retLogs = <<>>
       /\ ~retBool

\* C17 (as claimed): after a connect call of a downloader that owns its
\* interface, is_connected() holds exactly when the call returned True, and
\* then one beacon wait was made.
C17_ReadyOnlyAfterBeacon ==
    (call.op = "connect" /\ own_connection)
    => /\ is_connected(mav) = retBool
       /\ retBool => beaconWaits = 1

\* C18 (as claimed): once a receive of list_logs has raised a link error on
\* the current link, is_connected() is false.
C18_LinkErrorDisconnects ==
    linkDead => ~is_connected(mav)

\* C19 (as claimed): a list_logs call that started with no cached list and
\* whose collection was cut off by a receive error leaves the cache
\* unpopulated.
C19_CutOffCollectionNotCached ==
    (/\ call.op = "list_logs"
     /\ ~call.cached
     /\ pc = "idle"
     /\ linkDead)
    => cached_logs.none

\* C20 (as claimed): after a list_logs(True) call made on a connected handle
\* with a list cached has returned without sending a catalog request (its
\* reconnect failed), the cache is unpopulated.
C20_ForcedRefreshInvalidates ==
    (/\ call.op = "list_logs"
     /\ call.force
     /\ call.connected
     /\ call.cached
     /\ pc = "idle"
     /\ tx.list = 0)
    => cached_logs.none

\* C21 (as claimed): throughout a download_log call 0 <= offset <= total_size
\* holds and no request asks for more than 90 bytes or more than what is
\* left.
C21_OffsetWithinSize ==
    dlStatus # "none"
    => /\ 0 <= offset
       /\ offset <= total_size
       /\ count <= LOG_DATA_CHUNK_SIZE
       /\ pc = "dl_wait" => count = RequestLength(total_size, offset)

\* C22 (as claimed): while the collection loop of list_logs goes on after a
\* LOG_ENTRY, the number of collected entries is below the num_logs announced
\* by the first LOG_ENTRY of that collection.
C22_StopsAtFirstAnnouncedCount ==
    (pc = "ll_loop" /\ last_num_logs # -1) => Len(logs) < last_num_logs

\* C23: the list a list_logs collection returns and caches holds the
\* collected entries, each once, in ascending order of id, whatever the order
\* they arrived in.
C23_SortedById ==
    (call.op = "list_logs" /\ pc = "idle" /\ tx.list = 1)
    => /\ Len(retLogs) = Len(logs)
       /\ {retLogs[i] : i \in 1 .. Len(retLogs)} = {logs[i] : i \in 1 .. Len(logs)}
       /\ \A i \in 1 .. Len(retLogs) : \A j \in 1 .. Len(retLogs) :
            i < j => retLogs[i].id < retLogs[j].id
       /\ cached_logs.list = retLogs

\* C23 witness: entries that arrived in descending order of id were returned
\* in ascending order.
C23_Witness ==
    /\ call.op = "list_logs"
    /\ pc = "idle"
    /\ tx.list = 1
    /\ Len(logs) = 2
    /\ logs[1].id > logs[2].id
    /\ retLogs[1].id < retLogs[2].id

\* C24: a recv_match call of the list_logs collection loop or of the
\* download_log chunk window that raises no link error and leaves a message
\* of another kind in msg stays in the same loop: no exception, nothing
\* collected, cached, written or accepted, offset and retry count as before,
\* nothing sent.
C24_StrayIgnored ==
    [][(/\ msg' = Stray
        /\ ~linkDead'
        /\ \/ pc = "dl_wait" /\ wait_iter' = wait_iter + 1
           \/ pc = "ll_loop" /\ ll_iter' = ll_iter + 1)
       => (/\ pc' = pc
           /\ stack' = stack
           /\ raised' = raised
           /\ logs' = logs
           /\ cached_logs' = cached_logs
           /\ file' = file
           /\ offset' = offset
           /\ retry_count' = retry_count
           /\ accepted' = accepted
           /\ streak' = streak
           /\ dlStatus' = dlStatus
           /\ tx' = tx)]_vars

\* C24 witness: in a chunk window after the first chunk the message last
\* received is stray telemetry.
C24_Witness ==
    /\ pc = "dl_wait"
    /\ msg = Stray
    /\ accepted # <<>>
    /\ retry_count = 1

\* C25: every chunk window of download_log ends with an accepted chunk that
\* advances the offset by a full chunk of 90 bytes and resets the retry
\* count, with the end of the download, or with one more of the fewer than 3
\* retries used at the same offset; and every download_log call that has
\* started its transfer comes to an end.
C25_DownloadTerminates ==
    /\ [][(pc = "dl_wait" /\ pc' # "dl_wait")
          => \/ /\ pc' = "dl_loop"
                /\ offset' = offset + LOG_DATA_CHUNK_SIZE
                /\ retry_count' = 0
             \/ /\ pc' = "dl_loop"
                /\ offset' = offset
                /\ retry_count' = retry_count + 1
                /\ retry_count' < max_retries
             \/ dlStatus' \in {"success", "failed", "raised"}]_vars
    /\ (dlStatus = "running") ~> (dlStatus # "running")

\* C25 witness: a download ended by timeout after the device answered the
\* last requests only with a stale chunk.
C25_Witness ==
    /\ dlStatus = "failed"
    /\ dlCause = "timeout"
    /\ msg.type = "LOG_DATA"
    /\ accepted # <<>>

\* C26: download_log sends a chunk request only from its loop test, for the
\* current log id and offset and min(90, total_size - offset) bytes, and only
\* as the first request or after the previous one was answered by an accepted
\* chunk or timed out; a window that timed out with retries left leaves log
\* id and offset as they were and counts one retry; and a chunk is accepted
\* only in a window, for the requested id and the current offset, and resets
\* the retry count.
C26_OneOutstandingRequest ==
    [][/\ (pc # "dl_wait" /\ pc' = "dl_wait")
          => /\ pc = "dl_loop"
             /\ log_id' = log_id
             /\ offset' = offset
             /\ count' = RequestLength(total_size, offset)
             /\ \/ accepted = <<>> /\ retry_count = 0
                \/ answered
                \/ retry_count > 0
       /\ (pc = "dl_wait" /\ pc' = "dl_loop" /\ ~answered')
          => /\ log_id' = log_id
             /\ offset' = offset
             /\ retry_count' = retry_count + 1
             /\ retry_count' < max_retries
       /\ (~answered /\ answered')
          => /\ pc = "dl_wait"
             /\ msg'.type = "LOG_DATA"
             /\ msg'.id = log_id
             /\ msg'.ofs = offset
             /\ retry_count' = 0]_vars

\* C26 witness: a chunk was accepted on the third request for its offset, the
\* retry count is back to 0 and the next request is about to be sent.
C26_Witness ==
    /\ pc = "dl_loop"
    /\ dlStatus = "running"
    /\ answered
    /\ streak = 2
    /\ retry_count = 0
    /\ offset < total_size

\* C27: while a download runs and once it succeeded, the number of bytes
\* written equals the offset and the accepted chunks have strictly ascending
\* offsets (no offset is written twice); and a recv_match call of the chunk
\* window that raises no link error and leaves in msg a LOG_DATA of the
\* requested log for an offset already written changes neither the file, the
\* offset nor the accepted chunks.
C27_WrittenOnce ==
    /\ [](dlStatus \in {"running", "success"}
          => /\ Len(file.bytes) = offset
             /\ \A i \in 1 .. Len(accepted) : \A j \in 1 .. Len(accepted) :
                  i < j => accepted[i].ofs < accepted[j].ofs)
    /\ [][(/\ pc = "dl_wait"
           /\ wait_iter' = wait_iter + 1
           /\ ~linkDead'
           /\ msg'.type = "LOG_DATA"
           /\ msg'.id = log_id
           /\ msg'.ofs < offset)
          => (/\ file' = file
              /\ offset' = offset
              /\ accepted' = accepted)]_vars

\* C27 witness: in the window of the next offset a duplicate of the chunk
\* accepted last has arrived, and the bytes written still equal the offset.
C27_Witness ==
    /\ pc = "dl_wait"
    /\ ~answered
    /\ accepted # <<>>
    /\ msg = accepted[Len(accepted)]
    /\ msg.ofs + msg.count = offset
    /\ Len(file.bytes) = offset

\* C28: an erase_all_logs call leaves the cached list as it is, and a
\* list_logs(False) call that starts with a list cached returns that list
\* from the cache without sending anything.
C28_EraseKeepsCache ==
    /\ [][(pc = "idle" /\ call'.op = "erase_all_logs")
          => cached_logs' = cached_logs]_vars
    /\ [][(pc = "ll_entry" /\ call.op = "list_logs" /\ ~call.force /\ call.cached)
          => (/\ pc' = "idle"
              /\ retLogs' = cached_logs.list
              /\ cached_logs' = cached_logs
              /\ tx' = tx)]_vars

\* C28 witness: a confirmed erase on a connected handle was sent and the
\* cache still holds the two entries it held.
C28_Witness ==
    /\ call.op = "erase_all_logs"
    /\ call.force
    /\ call.connected
    /\ call.cached
    /\ retBool
    /\ Len(cached_logs.list) = 2

\* C29 (as claimed): after LogDownloader.disconnect() has returned, the link
\* of an interface the downloader created is not open.
C29_DisconnectClosesOwnLinks ==
    (call.op = "disconnect" /\ mav.creator = "downloader")
    => mav.master.state # "open"

\* C30 (as claimed, the download_latest part): once download_latest is past
\* its collection's entry, the link has been reconnected exactly when no
\* list was cached at the time of the call.
C30_LatestReconnectsWhenUncached ==
    (call.op = "download_latest" /\ pc \notin {"latest_entry", "ll_entry"})
    => ((reconnects = 1) = ~call.cached)

\* C30 (amended): no step of download_log, download_all or erase_all_logs
\* replaces, disconnects or reconnects the connection object; download_latest
\* asks for a forced refresh exactly when no list is cached at the time of
\* the call, and that refresh reconnects exactly when the handle is connected.
C30_ConnectionReplacedOnlyByRefresh ==
    /\ [][(call'.op \in {"download_log", "download_all", "erase_all_logs"})
          => (mav' = mav /\ reconnects' = 0)]_vars
    /\ []((call.op = "download_latest" /\ pc # "latest_entry")
          => (/\ force_refresh = ~call.cached
              /\ (pc # "ll_entry"
                  => ((reconnects = 1) = (~call.cached /\ call.connected))
                     /\ reconnects \in {0, 1})))

\* C30 witness: download_latest, called on a connected handle with no list
\* cached, has reconnected once and downloaded the latest log.
C30_Witness ==
    /\ call.op = "download_latest"
    /\ ~call.cached
    /\ call.connected
    /\ reconnects = 1
    /\ pc = "idle"
    /\ dlStatus = "success"

====
